---------------------------- MODULE Spec2Model ----------------------------
(***************************************************************************)
(* A model of django-bulksms-bd: the validators and the formatter of       *)
(* bulksms/utils.py, the exception classes of bulksms/exceptions.py and    *)
(* the client of bulksms/client.py (error mapper, request executor and     *)
(* facade operations).                                                     *)
(*                                                                         *)
(* Python strings that the code inspects character by character (phone     *)
(* numbers, messages, sender IDs) are sequences of one-character strings;  *)
(* strings the code only passes along (API key, URLs, raw bodies) are      *)
(* TLA+ strings.                                                           *)
(***************************************************************************)
EXTENDS Integers, Sequences, FiniteSets, TLC

VARIABLES
    num,        \* the phone number handed to the utils functions
    vres,       \* outcome of validate_phone_number(num)
    fres,       \* result of format_phone_number(num)
    ffres,      \* result of format_phone_number(format_phone_number(num))
    msgArg,     \* the message handed to the utils functions
    mres,       \* outcome of validate_message(msgArg)
    parts,      \* result of get_message_parts(msgArg)
    sidArg,     \* the sender ID handed to validate_sender_id
    sres,       \* outcome of validate_sender_id(sidArg)
    settings,   \* django.conf.settings, as far as the package reads it
    ctor,       \* the call of BulkSMSClient(...) that has been made, with its arguments
    lookup,     \* the last call of get_bulksms_setting, with its result
    overridden, \* an earlier call on the client was given a sender_id of its own
    client,     \* the fields of the BulkSMSClient instance
    call,       \* the operation last invoked on the client, with its arguments
    requests,   \* the HTTP requests issued by the last operation, in order
    outcome     \* what the last operation returned or raised

vars ==
    <<num, vres, fres, ffres, msgArg, mres, parts, sidArg, sres, settings, ctor, lookup,
      overridden, client, call, requests, outcome>>

phoneVars == <<num, vres, fres, ffres>>

textVars == <<msgArg, mres, parts, sidArg, sres>>

configVars == <<settings, ctor, lookup>>

clientVars == <<client, call, requests, outcome, overridden, configVars>>

-----------------------------------------------------------------------------
(* Characters and the character classes of Python's re module.             *)

\* "BN7" stands for U+09ED BENGALI DIGIT SEVEN, one character that is a
\* decimal digit for \d (str patterns are Unicode-aware) and is not in [0-9].
BengaliDigit == "BN7"

AsciiDigits == {"0", "1", "2", "3", "4", "5", "6", "7", "8", "9"}

\* \d
UnicodeDigits == AsciiDigits \cup {BengaliDigit}

\* \s (the members that occur in the inputs of this model)
Whitespace == {" ", "\t", "\n"}

AsciiLetters ==
    {"a", "b", "c", "d", "e", "f", "g", "h", "i", "j", "k", "l", "m",
     "n", "o", "p", "q", "r", "s", "t", "u", "v", "w", "x", "y", "z",
     "A", "B", "C", "D", "E", "F", "G", "H", "I", "J", "K", "L", "M",
     "N", "O", "P", "Q", "R", "S", "T", "U", "V", "W", "X", "Y", "Z"}

\* re.sub('[<chars>]', '', s): s without the characters of the class
ReSubRemove(chars, s) == SelectSeq(s, LAMBDA c : c \notin chars)

\* s.startswith(prefix)
StartsWith(s, prefix) ==
    /\ Len(s) >= Len(prefix)
    /\ SubSeq(s, 1, Len(prefix)) = prefix

\* re.match('^' + classes + '$', s) for a pattern that is a sequence of
\* character classes: '$' matches at the end of s and also just before a
\* newline that ends s.
ReMatch(classes, s) ==
    /\ \/ Len(s) = Len(classes)
       \/ Len(s) = Len(classes) + 1 /\ s[Len(s)] = "\n"
    /\ \A i \in 1..Len(classes) : s[i] \in classes[i]

\* re.match('^' + classes, s): the same pattern without the '$'
ReMatchPrefix(classes, s) ==
    /\ Len(s) >= Len(classes)
    /\ \A i \in 1..Len(classes) : s[i] \in classes[i]

\* [3-9]
OperatorDigits == {"3", "4", "5", "6", "7", "8", "9"}

\* \d{8}
EightDigits == [i \in 1..8 |-> UnicodeDigits]

\* r'^01[3-9]\d{8}$'
PatternLocal == <<{"0"}, {"1"}, OperatorDigits>> \o EightDigits

\* r'^8801[3-9]\d{8}$'
PatternCountry == <<{"8"}, {"8"}>> \o PatternLocal

-----------------------------------------------------------------------------
(* Python values held by the settings and passed to the constructor.  All  *)
(* have the same fields; "absent" is no value at all (no such attribute,   *)
(* no such key, an argument that is not passed).                           *)

PyNone == [typ |-> "none", str |-> "", chars |-> <<>>, num |-> 0, flag |-> FALSE]

Absent == [PyNone EXCEPT !.typ = "absent"]

PyStr(s) == [PyNone EXCEPT !.typ = "str", !.str = s]

\* a str that the code inspects character by character (a sender ID)
PyChars(cs) == [PyNone EXCEPT !.typ = "chars", !.chars = cs]

PyInt(n) == [PyNone EXCEPT !.typ = "int", !.num = n]

PyBool(b) == [PyNone EXCEPT !.typ = "bool", !.flag = b]

\* a float, in tenths
PyTenths(n) == [PyNone EXCEPT !.typ = "float", !.num = n]

\* bool(v)
PyTruthy(v) ==
    \/ v.typ = "str" /\ v.str # ""
    \/ v.typ = "chars" /\ v.chars # <<>>
    \/ v.typ \in {"int", "float"} /\ v.num # 0
    \/ v.typ = "bool" /\ v.flag

\* x or y
Or(x, y) == IF PyTruthy(x) THEN x ELSE y

\* The names the package looks up.
SettingNames ==
    {"API_KEY", "SENDER_ID", "BASE_URL", "TIMEOUT", "MAX_RETRIES", "BACKOFF_FACTOR",
     "VERIFY_SSL"}

\* settings.BULKSMS: no such attribute, a value that is not a dict, or a
\* dict (entries gives each key its value, Absent for a key it lacks).
NoBulksms == [typ |-> "absent", entries |-> [n \in SettingNames |-> Absent]]

\* The settings object: attrs gives the value of the attribute
\* BULKSMS_<name> (Absent when there is none).
Settings(attrs, bulksms) == [attrs |-> attrs, BULKSMS |-> bulksms]

NoSettings == Settings([n \in SettingNames |-> Absent], NoBulksms)

-----------------------------------------------------------------------------
(* bulksms/utils.py                                                        *)

\* A faulty variant: an attribute whose value is None or empty is passed over.
get_bulksms_setting_skips_falsy(conf, setting_name, default) ==
    IF PyTruthy(conf.attrs[setting_name])
    THEN conf.attrs[setting_name]
    ELSE IF conf.BULKSMS.typ = "dict"
    THEN IF conf.BULKSMS.entries[setting_name].typ # "absent"
         THEN conf.BULKSMS.entries[setting_name]
         ELSE default
    ELSE default

\* get_bulksms_setting, reading the settings object conf
get_bulksms_setting(conf, setting_name, default) ==
    IF conf.attrs[setting_name].typ # "absent"
    THEN conf.attrs[setting_name]
    ELSE IF conf.BULKSMS.typ = "dict"
    THEN IF conf.BULKSMS.entries[setting_name].typ # "absent"
         THEN conf.BULKSMS.entries[setting_name]
         ELSE default
    ELSE default

\* A validator returns normally ("ok") or raises BulkSMSValidationError.
ValidationError == "BulkSMSValidationError"

\* A faulty variant: the patterns lack their '$' anchor, so a match of a prefix suffices.
validate_phone_number_unanchored(phone_number) ==
    IF phone_number = <<>>
    THEN ValidationError
    ELSE LET stripped == ReSubRemove(Whitespace \cup {"-"}, phone_number)
             cleaned_number ==
                 IF StartsWith(stripped, <<"+">>) THEN Tail(stripped) ELSE stripped
         IN  IF \/ ReMatchPrefix(PatternCountry, cleaned_number)
                \/ ReMatchPrefix(PatternLocal, cleaned_number)
             THEN "ok"
             ELSE ValidationError

validate_phone_number(phone_number) ==
    IF phone_number = <<>>
    THEN ValidationError
    ELSE LET stripped == ReSubRemove(Whitespace \cup {"-"}, phone_number)
             cleaned_number ==
                 IF StartsWith(stripped, <<"+">>) THEN Tail(stripped) ELSE stripped
         IN  IF \/ ReMatch(PatternCountry, cleaned_number)
                \/ ReMatch(PatternLocal, cleaned_number)
             THEN "ok"
             ELSE ValidationError

\* The result of a call of format_phone_number, if it has been called.
NotFormatted == [done |-> FALSE, val |-> <<>>]

Formatted(s) == [done |-> TRUE, val |-> s]

\* A faulty variant: the country code is added before the '+' is removed.
format_phone_number_plus_last(phone_number) ==
    LET stripped == ReSubRemove(Whitespace \cup {"-"}, phone_number)
        prefixed ==
            IF StartsWith(stripped, <<"0", "1">>)
            THEN <<"8", "8", "0">> \o stripped
            ELSE stripped
    IN  ReSubRemove({"+"}, prefixed)

format_phone_number(phone_number) ==
    LET cleaned_number == ReSubRemove(Whitespace \cup {"-", "+"}, phone_number)
    IN  IF StartsWith(cleaned_number, <<"0", "1">>)
        THEN <<"8", "8", "0">> \o cleaned_number
        ELSE cleaned_number

\* len(sender_id) > 20
MaxSenderIdLen == 20

\* len(message) > 1530
MaxMessageLen == 1530

\* [a-zA-Z0-9\s\-\.]
SenderIdChars == AsciiLetters \cup AsciiDigits \cup Whitespace \cup {"-", "."}

\* A faulty variant: the longest sender ID has 11 characters.
validate_sender_id_max_11(sender_id) ==
    IF sender_id = <<>>
    THEN ValidationError
    ELSE IF Len(sender_id) > 11
    THEN ValidationError
    ELSE IF ~(\A i \in 1..Len(sender_id) : sender_id[i] \in SenderIdChars)
    THEN ValidationError
    ELSE "ok"

\* re.match(r'^[a-zA-Z0-9\s\-\.]+$', sender_id): a newline before the end is
\* itself in the class, so the match is "every character is in the class".
validate_sender_id(sender_id) ==
    IF sender_id = <<>>
    THEN ValidationError
    ELSE IF Len(sender_id) > MaxSenderIdLen
    THEN ValidationError
    ELSE IF ~(\A i \in 1..Len(sender_id) : sender_id[i] \in SenderIdChars)
    THEN ValidationError
    ELSE "ok"

\* message.strip() == ''
IsBlank(message) == \A i \in 1..Len(message) : message[i] \in Whitespace

\* A faulty variant: the length check is >= instead of >.
validate_message_rejects_1530(message) ==
    IF message = <<>>
    THEN ValidationError
    ELSE IF IsBlank(message)
    THEN ValidationError
    ELSE IF Len(message) >= MaxMessageLen
    THEN ValidationError
    ELSE "ok"

validate_message(message) ==
    IF message = <<>>
    THEN ValidationError
    ELSE IF IsBlank(message)
    THEN ValidationError
    ELSE IF Len(message) > MaxMessageLen
    THEN ValidationError
    ELSE "ok"

\* The result of a call of get_message_parts, if it has been called.
NotCounted == [done |-> FALSE, val |-> 0]

Counted(n) == [done |-> TRUE, val |-> n]

\* A faulty variant: the second breakpoint is tested with < instead of <=.
get_message_parts_306_excluded(message) ==
    IF Len(message) <= 160 THEN 1
    ELSE IF Len(message) < 306 THEN 2
    ELSE IF Len(message) <= 459 THEN 3
    ELSE IF Len(message) <= 612 THEN 4
    ELSE IF Len(message) <= 765 THEN 5
    ELSE IF Len(message) <= 918 THEN 6
    ELSE IF Len(message) <= 1071 THEN 7
    ELSE IF Len(message) <= 1224 THEN 8
    ELSE IF Len(message) <= 1377 THEN 9
    ELSE IF Len(message) <= 1530 THEN 10
    ELSE 11

get_message_parts(message) ==
    IF Len(message) <= 160 THEN 1
    ELSE IF Len(message) <= 306 THEN 2
    ELSE IF Len(message) <= 459 THEN 3
    ELSE IF Len(message) <= 612 THEN 4
    ELSE IF Len(message) <= 765 THEN 5
    ELSE IF Len(message) <= 918 THEN 6
    ELSE IF Len(message) <= 1071 THEN 7
    ELSE IF Len(message) <= 1224 THEN 8
    ELSE IF Len(message) <= 1377 THEN 9
    ELSE IF Len(message) <= 1530 THEN 10
    ELSE 11

-----------------------------------------------------------------------------
(* JSON values and provider replies.  Records of one kind all have the     *)
(* same fields; a field that is absent is flagged absent.                  *)

\* The value of a reply's "code" field: an integer, null (None) or a string.
IntCode(n) == [typ |-> "int", num |-> n, str |-> ""]

NullCode == [typ |-> "null", num |-> 0, str |-> ""]

StrCode(t) == [typ |-> "str", num |-> 0, str |-> t]

\* bool(code)
Truthy(code) ==
    \/ code.typ = "int" /\ code.num # 0
    \/ code.typ = "str" /\ code.str # ""

\* code == n, for an integer n
EqualsInt(code, n) == code.typ = "int" /\ code.num = n

\* code in [n1, n2, ...]
InIntList(code, ns) == code.typ = "int" /\ code.num \in ns

\* A parsed JSON body: a dict with an optional "code", an optional "message"
\* and further provider fields (kept as one opaque field), or another JSON
\* value (isdict = FALSE).
Dict(hascode, code, hasmsg, msg, extra) ==
    [isdict |-> TRUE, hascode |-> hascode, code |-> code,
     hasmsg |-> hasmsg, msg |-> msg, extra |-> extra]

NonDict(extra) ==
    [isdict |-> FALSE, hascode |-> FALSE, code |-> NullCode,
     hasmsg |-> FALSE, msg |-> "", extra |-> extra]

NoPayload == NonDict("")

\* response_data.get('code')
GetCode(response_data) ==
    IF response_data.hascode THEN response_data.code ELSE NullCode

\* response_data.get('message', 'Unknown API error')
GetMessage(response_data) ==
    IF response_data.hasmsg THEN <<response_data.msg>> ELSE <<"Unknown API error">>

\* What session.request() ends with: a response (status, raw text, and what
\* response.json() gives) or one of the requests exceptions.
HttpResponse(status, text, json_ok, data) ==
    [kind |-> "response", status |-> status, text |-> text,
     json_ok |-> json_ok, data |-> data]

TransportError(kind) ==
    [kind |-> kind, status |-> 0, text |-> "", json_ok |-> FALSE, data |-> NoPayload]

NoReply == TransportError("none")

-----------------------------------------------------------------------------
(* bulksms/exceptions.py                                                   *)

\* The response attribute of an exception: None, a raw body or a parsed one.
NoResponse == [tag |-> "none", text |-> "", data |-> NoPayload]

TextResponse(t) == [tag |-> "text", text |-> t, data |-> NoPayload]

DataResponse(d) == [tag |-> "data", text |-> "", data |-> d]

\* What an operation ends with: nothing yet, a returned payload, a returned
\* boolean, or a raised exception with its attributes.
NoOutcome ==
    [kind |-> "none", cls |-> "", message |-> <<>>, error_code |-> NullCode,
     response |-> NoResponse, value |-> NoPayload, flag |-> FALSE]

Return(payload) == [NoOutcome EXCEPT !.kind = "return", !.value = payload]

ReturnBool(b) == [NoOutcome EXCEPT !.kind = "return_bool", !.flag = b]

\* BulkSMSError.__init__
BulkSMSError(cls, message, error_code, response) ==
    [kind |-> "raise", cls |-> cls, message |-> message, error_code |-> error_code,
     response |-> response, value |-> NoPayload, flag |-> FALSE]

\* Evaluating an attribute the class does not have.
AttributeError == BulkSMSError("AttributeError", <<"from_response">>, NullCode, NoResponse)

\* The class hierarchy: each class with its base class.
BaseClass ==
    [c \in {"BulkSMSError", "BulkSMSAPIError", "BulkSMSConfigurationError",
            "BulkSMSValidationError", "BulkSMSNetworkError", "BulkSMSTimeoutError",
            "BulkSMSAuthenticationError", "BulkSMSBalanceError",
            "BulkSMSInvalidNumberError", "AttributeError", "Exception"} |->
        CASE c = "BulkSMSError" -> "Exception"
          [] c = "BulkSMSAPIError" -> "BulkSMSError"
          [] c = "BulkSMSConfigurationError" -> "BulkSMSError"
          [] c = "BulkSMSValidationError" -> "BulkSMSError"
          [] c = "BulkSMSNetworkError" -> "BulkSMSError"
          [] c = "BulkSMSTimeoutError" -> "BulkSMSNetworkError"
          [] c = "BulkSMSAuthenticationError" -> "BulkSMSAPIError"
          [] c = "BulkSMSBalanceError" -> "BulkSMSAPIError"
          [] c = "BulkSMSInvalidNumberError" -> "BulkSMSAPIError"
          [] c = "AttributeError" -> "Exception"
          [] OTHER -> "Exception"]

\* issubclass(cls, base)
RECURSIVE IsSubclass(_, _)
IsSubclass(cls, base) ==
    \/ cls = base
    \/ cls \in DOMAIN BaseClass /\ cls # "Exception" /\ IsSubclass(BaseClass[cls], base)

\* BulkSMSAPIError.ERROR_CODES
ERROR_CODES ==
    (202 :> "SMS Submitted Successfully")
    @@ (1001 :> "Invalid Number")
    @@ (1002 :> "Sender ID not correct/sender ID is disabled")
    @@ (1003 :> "Please Required all fields/Contact Your System Administrator")
    @@ (1005 :> "Internal Error")
    @@ (1006 :> "Balance Validity Not Available")
    @@ (1007 :> "Balance Insufficient")
    @@ (1011 :> "User ID not found")
    @@ (1012 :> "Masking SMS must be sent in Bengali")
    @@ (1013 :> "Sender ID has not found Gateway by api key")
    @@ (1014 :> "Sender Type Name not found using this sender by api key")
    @@ (1015 :> "Sender ID has not found Any Valid Gateway by api key")
    @@ (1016 :> "Sender Type Name Active Price Info not found by this sender id")
    @@ (1017 :> "Sender Type Name Price Info not found by this sender id")
    @@ (1018 :> "The Owner of this (username) Account is disabled")
    @@ (1019 :> "The (sender type name) Price of this (username) Account is disabled")
    @@ (1020 :> "The parent of this account is not found")
    @@ (1021 :> "The parent active (sender type name) price of this account is not found")
    @@ (1031 :> "Your Account Not Verified, Please Contact Administrator")
    @@ (1032 :> "IP Not whitelisted")

\* A faulty variant: the description of the table is used only when no
\* message is given.
BulkSMSAPIError_keeps_message(cls, message, error_code, response) ==
    IF message = <<>> /\ Truthy(error_code) /\ InIntList(error_code, DOMAIN ERROR_CODES)
    THEN BulkSMSError(cls,
                      <<ERROR_CODES[error_code.num], " (Code: ",
                        ToString(error_code.num), ")">>,
                      error_code, response)
    ELSE BulkSMSError(cls, message, error_code, response)

\* BulkSMSAPIError.__init__ (inherited by Authentication; Balance and
\* InvalidNumber pass their message on to it)
BulkSMSAPIError(cls, message, error_code, response) ==
    IF Truthy(error_code) /\ InIntList(error_code, DOMAIN ERROR_CODES)
    THEN BulkSMSError(cls,
                      <<ERROR_CODES[error_code.num], " (Code: ",
                        ToString(error_code.num), ")">>,
                      error_code, response)
    ELSE BulkSMSError(cls, message, error_code, response)

\* cls.from_response(response_data): a classmethod of BulkSMSAPIError, so
\* only that class and its subclasses have it.
from_response(cls, response_data) ==
    IF IsSubclass(cls, "BulkSMSAPIError")
    THEN BulkSMSAPIError(cls, GetMessage(response_data), GetCode(response_data),
                         DataResponse(response_data))
    ELSE AttributeError

-----------------------------------------------------------------------------
(* bulksms/client.py                                                       *)

\* timeout: int = 30
DefaultTimeout == 30

\* max_retries: int = 3
DefaultMaxRetries == 3

\* backoff_factor: float = 0.5 (in tenths)
DefaultBackoffFactor == 5

\* BulkSMSClient.BASE_URL
BASE_URL == "https://bulksmsbd.net/api"

\* Retry(total=max_retries, backoff_factor=backoff_factor,
\*       status_forcelist=[429, 500, 502, 503, 504],
\*       allowed_methods=["HEAD", "GET", "OPTIONS", "POST"])
Retry(total, backoff_factor) ==
    [total |-> total,
     backoff_factor |-> backoff_factor,
     status_forcelist |-> {429, 500, 502, 503, 504},
     allowed_methods |-> {"HEAD", "GET", "OPTIONS", "POST"}]

\* requests.Session() with HTTPAdapter(max_retries=retry_strategy) mounted
\* for http:// and https://
Session(retry_strategy) == [made |-> TRUE, max_retries |-> retry_strategy]

\* self.session before it is assigned
NoSession == [made |-> FALSE, max_retries |-> Retry(0, 0)]

\* The instance when __init__ has returned: constructed says that it has, so
\* that the caller holds the instance.  The three endpoints are
\* f"{base_url}/...", kept as the pair of the base URL and the path.
BulkSMSClient(base_url, api_key, sender_id, timeout, max_retries, backoff_factor, verify_ssl) ==
    [constructed |-> TRUE,
     base_url |-> base_url,
     api_key |-> api_key,
     sender_id |-> sender_id,
     timeout |-> timeout,
     verify_ssl |-> verify_ssl,
     SMS_ENDPOINT |-> <<base_url, "/smsapi">>,
     SMS_MANY_ENDPOINT |-> <<base_url, "/smsapimany">>,
     BALANCE_ENDPOINT |-> <<base_url, "/getBalanceApi">>,
     session |-> Session(Retry(max_retries, backoff_factor))]

\* No instance.
NoClient ==
    [constructed |-> FALSE, base_url |-> "", api_key |-> "", sender_id |-> <<>>,
     timeout |-> 0, verify_ssl |-> FALSE,
     SMS_ENDPOINT |-> <<"", "/smsapi">>,
     SMS_MANY_ENDPOINT |-> <<"", "/smsapimany">>,
     BALANCE_ENDPOINT |-> <<"", "/getBalanceApi">>,
     session |-> NoSession]

\* The arguments of BulkSMSClient(...): each is a value or is not passed.
NoArgs ==
    [base_url |-> Absent, api_key |-> Absent, sender_id |-> Absent, timeout |-> Absent,
     max_retries |-> Absent, backoff_factor |-> Absent, verify_ssl |-> Absent]

\* A parameter with a default value
Param(arg, default) == IF arg.typ = "absent" THEN default ELSE arg

\* raise BulkSMSConfigurationError(...) of __init__, with the start of its text
Unconfigured(what) ==
    BulkSMSError("BulkSMSConfigurationError", <<what, " is required">>, NullCode, NoResponse)

\* What __init__ ends with: the instance as it leaves it, and the exception
\* it raises, if any.
Initialised(self, out) == [self |-> self, outcome |-> out]

\* A faulty variant: the format of the sender ID is checked too.
init_validates_sender_id(conf, args) ==
    LET base_url ==
            Or(Param(args.base_url, PyStr(BASE_URL)),
               get_bulksms_setting(conf, "BASE_URL", PyStr(BASE_URL)))
        api_key == Or(Param(args.api_key, PyNone), get_bulksms_setting(conf, "API_KEY", PyNone))
        sender_id ==
            Or(Param(args.sender_id, PyNone), get_bulksms_setting(conf, "SENDER_ID", PyNone))
        timeout == Param(args.timeout, PyInt(DefaultTimeout))
        max_retries == Param(args.max_retries, PyInt(DefaultMaxRetries))
        backoff_factor == Param(args.backoff_factor, PyTenths(DefaultBackoffFactor))
        verify_ssl == Param(args.verify_ssl, PyBool(FALSE))
        self ==
            BulkSMSClient(base_url.str, api_key.str, sender_id.chars, timeout.num,
                          max_retries.num, backoff_factor.num, verify_ssl.flag)
        unfinished == [self EXCEPT !.constructed = FALSE, !.session = NoSession]
    IN  IF ~PyTruthy(api_key)
        THEN Initialised(unfinished, Unconfigured("API key"))
        ELSE IF ~PyTruthy(sender_id) \/ validate_sender_id(sender_id.chars) # "ok"
        THEN Initialised(unfinished, Unconfigured("Sender ID"))
        ELSE Initialised(self, NoOutcome)

\* A faulty variant: the sender ID is checked before the API key.
init_sender_id_first(conf, args) ==
    LET base_url ==
            Or(Param(args.base_url, PyStr(BASE_URL)),
               get_bulksms_setting(conf, "BASE_URL", PyStr(BASE_URL)))
        api_key == Or(Param(args.api_key, PyNone), get_bulksms_setting(conf, "API_KEY", PyNone))
        sender_id ==
            Or(Param(args.sender_id, PyNone), get_bulksms_setting(conf, "SENDER_ID", PyNone))
        timeout == Param(args.timeout, PyInt(DefaultTimeout))
        max_retries == Param(args.max_retries, PyInt(DefaultMaxRetries))
        backoff_factor == Param(args.backoff_factor, PyTenths(DefaultBackoffFactor))
        verify_ssl == Param(args.verify_ssl, PyBool(FALSE))
        self ==
            BulkSMSClient(base_url.str, api_key.str, sender_id.chars, timeout.num,
                          max_retries.num, backoff_factor.num, verify_ssl.flag)
        unfinished == [self EXCEPT !.constructed = FALSE, !.session = NoSession]
    IN  IF ~PyTruthy(sender_id)
        THEN Initialised(unfinished, Unconfigured("Sender ID"))
        ELSE IF ~PyTruthy(api_key)
        THEN Initialised(unfinished, Unconfigured("API key"))
        ELSE Initialised(self, NoOutcome)

\* BulkSMSClient.__init__, with the settings object conf
init(conf, args) ==
    LET base_url ==
            Or(Param(args.base_url, PyStr(BASE_URL)),
               get_bulksms_setting(conf, "BASE_URL", PyStr(BASE_URL)))
        api_key == Or(Param(args.api_key, PyNone), get_bulksms_setting(conf, "API_KEY", PyNone))
        sender_id ==
            Or(Param(args.sender_id, PyNone), get_bulksms_setting(conf, "SENDER_ID", PyNone))
        timeout == Param(args.timeout, PyInt(DefaultTimeout))
        max_retries == Param(args.max_retries, PyInt(DefaultMaxRetries))
        backoff_factor == Param(args.backoff_factor, PyTenths(DefaultBackoffFactor))
        verify_ssl == Param(args.verify_ssl, PyBool(FALSE))
        self ==
            BulkSMSClient(base_url.str, api_key.str, sender_id.chars, timeout.num,
                          max_retries.num, backoff_factor.num, verify_ssl.flag)
        unfinished == [self EXCEPT !.constructed = FALSE, !.session = NoSession]
    IN  IF ~PyTruthy(api_key)
        THEN Initialised(unfinished, Unconfigured("API key"))
        ELSE IF ~PyTruthy(sender_id)
        THEN Initialised(unfinished, Unconfigured("Sender ID"))
        ELSE Initialised(self, NoOutcome)

\* The form body of a POST and the query parameters of a GET.
NoData ==
    [kind |-> "none", api_key |-> "", senderid |-> <<>>, number |-> <<>>,
     message |-> <<>>, messages |-> <<>>]

NoParams == [kind |-> "none", api_key |-> ""]

HttpRequest(method, url, data, params) ==
    [method |-> method, url |-> url, data |-> data, params |-> params]

\* A faulty variant: 1007 is missing from the balance codes.
handle_api_error_balance_1006_only(error_code, response_data) ==
    IF InIntList(error_code, {1011, 1032})
    THEN from_response("BulkSMSAuthenticationError", response_data)
    ELSE IF InIntList(error_code, {1006})
    THEN from_response("BulkSMSBalanceError", response_data)
    ELSE IF EqualsInt(error_code, 1001)
    THEN from_response("BulkSMSInvalidNumberError", response_data)
    ELSE IF InIntList(error_code, {1002, 1003, 1013, 1014, 1015, 1016, 1017,
                                   1018, 1019, 1020, 1021, 1031})
    THEN from_response("BulkSMSConfigurationError", response_data)
    ELSE from_response("BulkSMSAPIError", response_data)

\* A faulty variant: 1012 is treated as a configuration error.
handle_api_error_1012_configuration(error_code, response_data) ==
    IF InIntList(error_code, {1011, 1032})
    THEN from_response("BulkSMSAuthenticationError", response_data)
    ELSE IF InIntList(error_code, {1006, 1007})
    THEN from_response("BulkSMSBalanceError", response_data)
    ELSE IF EqualsInt(error_code, 1001)
    THEN from_response("BulkSMSInvalidNumberError", response_data)
    ELSE IF InIntList(error_code, {1002, 1003, 1012, 1013, 1014, 1015, 1016, 1017,
                                   1018, 1019, 1020, 1021, 1031})
    THEN from_response("BulkSMSConfigurationError", response_data)
    ELSE from_response("BulkSMSAPIError", response_data)

\* BulkSMSClient._handle_api_error: every branch is a raise statement, and
\* the operator gives what the statement ends with (the exception built by
\* from_response, or the AttributeError of evaluating from_response).
handle_api_error(error_code, response_data) ==
    IF InIntList(error_code, {1011, 1032})
    THEN from_response("BulkSMSAuthenticationError", response_data)
    ELSE IF InIntList(error_code, {1006, 1007})
    THEN from_response("BulkSMSBalanceError", response_data)
    ELSE IF EqualsInt(error_code, 1001)
    THEN from_response("BulkSMSInvalidNumberError", response_data)
    ELSE IF InIntList(error_code, {1002, 1003, 1013, 1014, 1015, 1016, 1017,
                                   1018, 1019, 1020, 1021, 1031})
    THEN from_response("BulkSMSConfigurationError", response_data)
    ELSE from_response("BulkSMSAPIError", response_data)

\* What one HTTP attempt of the session's adapter ends with: a response, or
\* an error of the connection pool.  "NewConnectionError" is a connection
\* that cannot be opened, "ConnectTimeoutError" one that is not opened in
\* time, "ProtocolError" a connection reset or closed before the response,
\* "ReadTimeoutError" a response that does not come in time, and
\* "ChunkedEncodingError" a body that breaks off after the headers.
ConnectErrors == {"NewConnectionError", "ConnectTimeoutError"}

ReadErrors == {"ProtocolError", "ReadTimeoutError"}

\* The exception of requests.exceptions an error reaches _make_request as,
\* with the underlying error as its text.  The adapter raises ConnectTimeout
\* (a Timeout) for a connect timeout, RetryError (a RequestException) for
\* too many responses of the status_forcelist, and ConnectionError for every
\* other error the retries ended with, a read timeout included.
RaisedAfterRetries(result) ==
    IF result.kind = "response"
    THEN [TransportError("RequestException") EXCEPT
              !.text = "too many " \o ToString(result.status) \o " error responses"]
    ELSE IF result.kind = "ConnectTimeoutError"
    THEN [TransportError("Timeout") EXCEPT !.text = result.kind]
    ELSE [TransportError("ConnectionError") EXCEPT !.text = result.kind]

\* What session.request() ends with when the attempt is not retried: the
\* response, or the exception of an error that Retry re-raises (the method
\* is not in allowed_methods) or that occurs while the body is read.
RaisedAtOnce(result) ==
    IF result.kind = "response"
    THEN result
    ELSE IF result.kind = "ReadTimeoutError"
    THEN [TransportError("Timeout") EXCEPT !.text = result.kind]
    ELSE IF result.kind = "ProtocolError"
    THEN [TransportError("ConnectionError") EXCEPT !.text = result.kind]
    ELSE IF result.kind = "ChunkedEncodingError"
    THEN [TransportError("RequestException") EXCEPT !.text = result.kind]
    ELSE result

\* What attempt i ends with: the provider and the network go through the
\* script, and go on as its last entry says.
At(script, i) == IF i <= Len(script) THEN script[i] ELSE script[Len(script)]

\* A faulty variant: a response of the status_forcelist is retried only for GET.
is_retry_get_only(retries, method, result) ==
    IF result.kind = "response"
    THEN method = "GET" /\ result.status \in retries.status_forcelist
    ELSE IF result.kind \in ConnectErrors
    THEN TRUE
    ELSE IF result.kind \in ReadErrors
    THEN method \in retries.allowed_methods
    ELSE FALSE

\* Whether the retry strategy counts the attempt as one to repeat: a
\* response whose status is in status_forcelist or a read error, for a method
\* of allowed_methods; a connect error, for every method.
is_retry(retries, method, result) ==
    IF result.kind = "response"
    THEN method \in retries.allowed_methods /\ result.status \in retries.status_forcelist
    ELSE IF result.kind \in ConnectErrors
    THEN TRUE
    ELSE IF result.kind \in ReadErrors
    THEN method \in retries.allowed_methods
    ELSE FALSE

\* A faulty variant: the retries are exhausted one attempt early.
RECURSIVE urlopen_one_attempt_less(_, _, _, _)
urlopen_one_attempt_less(retries, method, script, i) ==
    IF ~is_retry(retries, method, At(script, i))
    THEN [reply |-> RaisedAtOnce(At(script, i)), attempts |-> i]
    ELSE IF retries.total - 1 <= 0
    THEN [reply |-> RaisedAfterRetries(At(script, i)), attempts |-> i]
    ELSE urlopen_one_attempt_less([retries EXCEPT !.total = @ - 1], method, script, i + 1)

\* The attempts of one session.request(), from attempt i on.  An attempt
\* that is_retry counts takes one from retries.total, and the request is
\* repeated unless the total has gone below zero.
RECURSIVE urlopen(_, _, _, _)
urlopen(retries, method, script, i) ==
    IF ~is_retry(retries, method, At(script, i))
    THEN [reply |-> RaisedAtOnce(At(script, i)), attempts |-> i]
    ELSE IF retries.total - 1 < 0
    THEN [reply |-> RaisedAfterRetries(At(script, i)), attempts |-> i]
    ELSE urlopen([retries EXCEPT !.total = @ - 1], method, script, i + 1)

\* self.session.request(method=method, ...): what it ends with, and the
\* number of HTTP attempts it made.
session_request(session, method, script) == urlopen(session.max_retries, method, script, 1)

\* What a call of a method ends with: the HTTP requests it issued and its
\* outcome.
Ended(reqs, out) == [requests |-> reqs, outcome |-> out]

\* A faulty variant: a body that is not JSON is raised as an API failure.
handle_reply_rejects_text(self, reply) ==
    IF reply.kind = "Timeout"
    THEN BulkSMSError("BulkSMSTimeoutError",
                      <<"Request timed out after ", ToString(self.timeout), " seconds">>,
                      NullCode, NoResponse)
    ELSE IF reply.kind = "ConnectionError"
    THEN BulkSMSError("BulkSMSNetworkError", <<"Connection error: ", reply.text>>,
                      NullCode, NoResponse)
    ELSE IF reply.kind = "RequestException"
    THEN BulkSMSError("BulkSMSNetworkError", <<"Request error: ", reply.text>>,
                      NullCode, NoResponse)
    ELSE IF reply.status >= 400
    THEN BulkSMSError("BulkSMSNetworkError",
                      <<"HTTP ", ToString(reply.status), ": ", reply.text>>,
                      IntCode(reply.status), TextResponse(reply.text))
    ELSE IF ~reply.json_ok
    THEN BulkSMSError("BulkSMSAPIError", <<"Invalid response: ", reply.text>>,
                      NullCode, TextResponse(reply.text))
    ELSE LET response_data == reply.data
         IN  IF ~response_data.isdict
             THEN Return(response_data)
             ELSE LET error_code == GetCode(response_data)
                  IN  IF EqualsInt(error_code, 202)
                      THEN Return(response_data)
                      ELSE IF Truthy(error_code) /\ ~EqualsInt(error_code, 202)
                      THEN LET raised == handle_api_error(error_code, response_data)
                           IN  IF raised.kind = "raise"
                               THEN raised
                               ELSE Return(response_data)
                      ELSE Return(response_data)

\* The part of _make_request after session.request() has ended with reply.
handle_reply(self, reply) ==
    IF reply.kind = "Timeout"
    THEN BulkSMSError("BulkSMSTimeoutError",
                      <<"Request timed out after ", ToString(self.timeout), " seconds">>,
                      NullCode, NoResponse)
    ELSE IF reply.kind = "ConnectionError"
    THEN BulkSMSError("BulkSMSNetworkError", <<"Connection error: ", reply.text>>,
                      NullCode, NoResponse)
    ELSE IF reply.kind = "RequestException"
    THEN BulkSMSError("BulkSMSNetworkError", <<"Request error: ", reply.text>>,
                      NullCode, NoResponse)
    ELSE IF reply.status >= 400
    THEN BulkSMSError("BulkSMSNetworkError",
                      <<"HTTP ", ToString(reply.status), ": ", reply.text>>,
                      IntCode(reply.status), TextResponse(reply.text))
    ELSE LET response_data ==
                 IF reply.json_ok
                 THEN reply.data
                 ELSE Dict(TRUE, NullCode, TRUE, reply.text, "")
         IN  IF ~response_data.isdict
             THEN Return(response_data)
             ELSE LET error_code == GetCode(response_data)
                  IN  IF EqualsInt(error_code, 202)
                      THEN Return(response_data)
                      ELSE IF Truthy(error_code) /\ ~EqualsInt(error_code, 202)
                      THEN LET raised == handle_api_error(error_code, response_data)
                           IN  IF raised.kind = "raise"
                               THEN raised
                               ELSE Return(response_data)
                      ELSE Return(response_data)

\* BulkSMSClient._make_request: one call of session.request(), whose
\* attempts end as script says.
make_request(self, method, url, data, params, script) ==
    Ended(<<HttpRequest(method, url, data, params)>>,
          handle_reply(self, session_request(self.session, method, script).reply))

\* ",".join(strings)
RECURSIVE Join(_, _)
Join(strings, sep) ==
    IF strings = <<>>
    THEN <<>>
    ELSE IF Len(strings) = 1
    THEN strings[1]
    ELSE strings[1] \o sep \o Join(Tail(strings), sep)

\* raise BulkSMSValidationError(...); the text of the message is left out.
Invalid == BulkSMSError(ValidationError, <<>>, NullCode, NoResponse)

\* A faulty variant: only the first recipient is validated.
send_sms_validates_first(self, phone_numbers, message, sender_id, script) ==
    IF validate_message(message) # "ok"
    THEN Ended(<<>>, Invalid)
    ELSE LET sender == IF sender_id # <<>> THEN sender_id ELSE self.sender_id
         IN  IF validate_sender_id(sender) # "ok"
             THEN Ended(<<>>, Invalid)
             ELSE IF phone_numbers # <<>> /\ validate_phone_number(phone_numbers[1]) # "ok"
             THEN Ended(<<>>, Invalid)
             ELSE LET formatted_numbers ==
                          [i \in 1..Len(phone_numbers) |->
                              format_phone_number(phone_numbers[i])]
                      data ==
                          [NoData EXCEPT !.kind = "sms",
                                         !.api_key = self.api_key,
                                         !.senderid = sender,
                                         !.number = Join(formatted_numbers, <<",">>),
                                         !.message = message]
                  IN  make_request(self, "POST", self.SMS_ENDPOINT, data, NoParams, script)

\* BulkSMSClient.send_sms; phone_numbers is the list (a single string has
\* been wrapped into a list of one).
send_sms(self, phone_numbers, message, sender_id, script) ==
    IF validate_message(message) # "ok"
    THEN Ended(<<>>, Invalid)
    ELSE LET sender == IF sender_id # <<>> THEN sender_id ELSE self.sender_id
         IN  IF validate_sender_id(sender) # "ok"
             THEN Ended(<<>>, Invalid)
             ELSE IF \E i \in 1..Len(phone_numbers) :
                        validate_phone_number(phone_numbers[i]) # "ok"
             THEN Ended(<<>>, Invalid)
             ELSE LET formatted_numbers ==
                          [i \in 1..Len(phone_numbers) |->
                              format_phone_number(phone_numbers[i])]
                      data ==
                          [NoData EXCEPT !.kind = "sms",
                                         !.api_key = self.api_key,
                                         !.senderid = sender,
                                         !.number = Join(formatted_numbers, <<",">>),
                                         !.message = message]
                  IN  make_request(self, "POST", self.SMS_ENDPOINT, data, NoParams, script)

\* json.dumps of one character inside a string (ensure_ascii)
JsonEscape(c) ==
    CASE c = "\"" -> <<"\\", "\"">>
      [] c = "\\" -> <<"\\", "\\">>
      [] c = "\n" -> <<"\\", "n">>
      [] c = "\t" -> <<"\\", "t">>
      [] c = BengaliDigit -> <<"\\", "u", "0", "9", "e", "d">>
      [] OTHER -> <<c>>

\* json.dumps(s) for a string s
JsonString(s) ==
    <<"\"">> \o Join([i \in 1..Len(s) |-> JsonEscape(s[i])], <<>>) \o <<"\"">>

\* json.dumps({"to": to, "message": message})
JsonPair(to, message) ==
    <<"{", "\"", "t", "o", "\"", ":", " ">> \o JsonString(to)
        \o <<",", " ", "\"", "m", "e", "s", "s", "a", "g", "e", "\"", ":", " ">>
        \o JsonString(message) \o <<"}">>

\* json.dumps(formatted_messages)
json_dumps(formatted_messages) ==
    <<"[">>
        \o Join([i \in 1..Len(formatted_messages) |->
                    JsonPair(formatted_messages[i].to, formatted_messages[i].message)],
                <<",", " ">>)
        \o <<"]">>

\* An element of the messages list: a dict with or without its 'to' and
\* 'message' keys, or something that is not a dict.
Pair(to, message) ==
    [isdict |-> TRUE, hasto |-> TRUE, to |-> to, hasmessage |-> TRUE, message |-> message]

\* not isinstance(msg_data, dict) or 'to' not in msg_data or 'message' not in msg_data
Malformed(msg_data) == ~msg_data.isdict \/ ~msg_data.hasto \/ ~msg_data.hasmessage

\* One turn of the loop of send_bulk_sms raises.
PairFails(msg_data) ==
    \/ Malformed(msg_data)
    \/ validate_phone_number(msg_data.to) # "ok"
    \/ validate_message(msg_data.message) # "ok"

\* BulkSMSClient.send_bulk_sms
send_bulk_sms(self, messages, sender_id, script) ==
    IF messages = <<>>
    THEN Ended(<<>>, Invalid)
    ELSE LET sender == IF sender_id # <<>> THEN sender_id ELSE self.sender_id
         IN  IF validate_sender_id(sender) # "ok"
             THEN Ended(<<>>, Invalid)
             ELSE IF \E i \in 1..Len(messages) : PairFails(messages[i])
             THEN Ended(<<>>, Invalid)
             ELSE LET formatted_messages ==
                          [i \in 1..Len(messages) |->
                              [to |-> format_phone_number(messages[i].to),
                               message |-> messages[i].message]]
                      data ==
                          [NoData EXCEPT !.kind = "many",
                                         !.api_key = self.api_key,
                                         !.senderid = sender,
                                         !.messages = json_dumps(formatted_messages)]
                  IN  make_request(self, "POST", self.SMS_MANY_ENDPOINT, data, NoParams, script)

\* A faulty variant: the API key is sent in the form body of a POST.
get_balance_posts_key(self, script) ==
    make_request(self, "POST", self.BALANCE_ENDPOINT,
                 [NoData EXCEPT !.kind = "balance", !.api_key = self.api_key], NoParams, script)

\* BulkSMSClient.get_balance
get_balance(self, script) ==
    make_request(self, "GET", self.BALANCE_ENDPOINT, NoData,
                 [kind |-> "params", api_key |-> self.api_key], script)

\* f"Your {brand_name} OTP is {otp_code}"
OtpMessage(brand_name, otp_code) ==
    <<"Y", "o", "u", "r", " ">> \o brand_name \o <<" ", "O", "T", "P", " ", "i", "s", " ">>
        \o otp_code

\* A faulty variant: the OTP code and the brand name are checked as
\* validate_otp_format checks them.
send_otp_validates_format(self, phone_number, otp_code, brand_name, sender_id, script) ==
    IF \/ otp_code = <<>>
       \/ brand_name = <<>>
       \/ Len(otp_code) \notin 4..8
       \/ \E i \in 1..Len(otp_code) : otp_code[i] \notin UnicodeDigits
       \/ Len(brand_name) > 50
    THEN Ended(<<>>, Invalid)
    ELSE send_sms(self, <<phone_number>>, OtpMessage(brand_name, otp_code), sender_id, script)

\* BulkSMSClient.send_otp
send_otp(self, phone_number, otp_code, brand_name, sender_id, script) ==
    send_sms(self, <<phone_number>>, OtpMessage(brand_name, otp_code), sender_id, script)

\* A faulty variant: only BulkSMSError is caught.
test_connection_catches_bulksms_only(self, script) ==
    LET balance == get_balance(self, script)
    IN  Ended(balance.requests,
              IF balance.outcome.kind = "raise"
              THEN IF IsSubclass(balance.outcome.cls, "BulkSMSError")
                   THEN ReturnBool(FALSE)
                   ELSE balance.outcome
              ELSE ReturnBool(TRUE))

\* BulkSMSClient.test_connection: every exception get_balance can raise is
\* an Exception, so each is caught.
test_connection(self, script) ==
    LET balance == get_balance(self, script)
    IN  Ended(balance.requests,
              IF balance.outcome.kind = "raise" THEN ReturnBool(FALSE) ELSE ReturnBool(TRUE))

-----------------------------------------------------------------------------
(* The calls made on the client and the replies of the provider.           *)

MaxRecipients == 2

MaxPairs == 2

MaxRetries == 3

LocalNumber == <<"0", "1", "7", "1", "2", "3", "4", "5", "6", "7", "8">>

CountryNumber ==
    <<"+", "8", "8", "0", " ", "1", "8", "1", "2", "-", "3", "4", "5", "6", "7", "8">>

ShortNumber == <<"0", "1", "7", "1", "2", "3", "4", "5", "6", "7">>

PhoneSamples == {LocalNumber, CountryNumber, ShortNumber, <<>>}

Hello == <<"H", "e", "l", "l", "o">>

MessageSamples == {Hello, <<>>, <<" ", "\t">>}

\* A sender_id argument: none (None or '', which `or` treats alike), a
\* well-formed one and one with a character outside the class.
SenderIdSamples == {<<>>, <<"B", "r", "-", "1">>, <<"b", "_", "d">>}

TestSender == <<"T", "e", "s", "t", "S", "e", "n", "d", "e", "r">>

\* The default sender ID of a client: __init__ only requires it to be
\* non-empty.
DefaultSenderIds == {TestSender, <<"n", "o", "#">>}

SeqsUpTo(S, n) == UNION {[1..k -> S] : k \in 0..n}

PairSamples ==
    {Pair(LocalNumber, Hello), Pair(CountryNumber, <<"B", "y", "\"", "e">>),
     Pair(ShortNumber, Hello), Pair(LocalNumber, <<>>),
     [Pair(LocalNumber, <<>>) EXCEPT !.hasmessage = FALSE],
     [Pair(<<>>, Hello) EXCEPT !.hasto = FALSE],
     [Pair(<<>>, <<>>) EXCEPT !.isdict = FALSE, !.hasto = FALSE, !.hasmessage = FALSE]}

CategoryCodes ==
    {1001, 1002, 1003, 1006, 1007, 1011, 1013, 1014, 1015, 1016, 1017, 1018, 1019,
     1020, 1021, 1031, 1032}

CodeSamples ==
    {IntCode(n) : n \in CategoryCodes \cup {202, 0, 1, 200, 1005, 1012, 9999}}
        \cup {NullCode, StrCode(""), StrCode("202"), StrCode("1007")}

\* Every code with a provider message; some codes without one; no code.
DictSamples ==
    {Dict(TRUE, c, TRUE, "provider message", "") : c \in CodeSamples}
        \cup {Dict(TRUE, IntCode(n), FALSE, "", "") : n \in {202, 1007, 1002, 9999}}
        \cup {Dict(FALSE, NullCode, hm, IF hm THEN "provider message" ELSE "", "balance") :
                 hm \in BOOLEAN}

\* What the first attempt of a request may end with.
AttemptSamples ==
    {HttpResponse(200, "json", TRUE, d) : d \in DictSamples}
        \cup {HttpResponse(399, "json", TRUE, Dict(TRUE, IntCode(c), TRUE, "provider message", "")) :
                 c \in {202, 1007}}
        \cup {HttpResponse(200, "json", TRUE, NonDict("list"))}
        \cup {HttpResponse(200, "text", FALSE, NoPayload), HttpResponse(204, "", FALSE, NoPayload)}
        \cup {HttpResponse(st, "json", TRUE, Dict(TRUE, IntCode(c), TRUE, "provider message", "")) :
                 st \in {400, 404, 429, 500, 501}, c \in {202, 1007}}
        \cup {TransportError(k) : k \in ConnectErrors \cup ReadErrors \cup {"ChunkedEncodingError"}}

\* What an attempt that is followed by another one ends with.
RetriedSamples ==
    {TransportError("ProtocolError"), TransportError("ReadTimeoutError"),
     HttpResponse(503, "json", TRUE, Dict(TRUE, IntCode(1007), TRUE, "provider message", ""))}

\* What the last attempt after a retry may end with.
LaterSamples ==
    {HttpResponse(200, "json", TRUE, Dict(TRUE, IntCode(c), TRUE, "provider message", "")) :
        c \in {202, 1007, 1002}}
        \cup {HttpResponse(st, "json", TRUE, Dict(TRUE, IntCode(1007), TRUE, "provider message", "")) :
                 st \in {404, 500}}
        \cup {TransportError(k) : k \in ConnectErrors \cup ReadErrors \cup {"ChunkedEncodingError"}}

\* What the provider and the network do during one call: up to max_retries
\* (at least one) attempts that end with an error or a 503, and what every
\* attempt after them ends with.
Scripts(retries) ==
    {<<first>> : first \in AttemptSamples}
        \cup UNION {{failed \o <<last>> :
                        failed \in [1..k -> RetriedSamples], last \in LaterSamples} :
                     k \in 1..(IF retries.total = 0 THEN 1 ELSE retries.total)}

\* No attempt is made.
NoScript == <<NoReply>>

\* session.request() makes attempts only if it is called.
ScriptsTo(self, ended) ==
    IF ended.requests = <<>> THEN {NoScript} ELSE Scripts(self.session.max_retries)

\* An OTP code with a brand name: a usual one; a code that is not a number
\* with an empty brand name; a brand name that makes the message longer
\* than validate_message allows.
OtpSamples ==
    {<<<<"1", "2", "3", "4">>, <<"A", "c", "m", "e">>>>,
     <<<<"x">>, <<>>>>,
     <<<<"1", "2", "3", "4">>, [i \in 1..MaxMessageLen |-> "B"]>>}

NoCall ==
    [op |-> "none", phone_numbers |-> <<>>, as_list |-> FALSE, message |-> <<>>,
     sender_id |-> <<>>, messages |-> <<>>, otp_code |-> <<>>, brand_name |-> <<>>,
     reply |-> NoReply, script |-> <<>>, attempts |-> <<>>]

\* No utils function has been applied to a message or a sender ID.
NoText ==
    /\ msgArg = <<>>
    /\ mres = "none"
    /\ parts = NotCounted
    /\ sidArg = <<>>
    /\ sres = "none"

\* The settings of the tests: BULKSMS_API_KEY and BULKSMS_SENDER_ID.
TestSettings ==
    Settings([NoSettings.attrs EXCEPT !["API_KEY"] = PyStr("test_api_key"),
                                      !["SENDER_ID"] = PyChars(TestSender)],
             NoBulksms)

\* A project that sets BULKSMS_API_KEY = None and no sender ID.
UnsetSettings == Settings([NoSettings.attrs EXCEPT !["API_KEY"] = PyNone], NoBulksms)

SpecSettings == {TestSettings, UnsetSettings}

\* The constructor calls: nothing passed; an API key and a max_retries other
\* than the default passed; an API key and a sender ID that does not pass
\* validate_sender_id passed.
CtorSamples ==
    {NoArgs}
        \cup {[NoArgs EXCEPT !.api_key = PyStr("param_key"), !.max_retries = PyInt(r)] :
                 r \in (0..MaxRetries) \ {DefaultMaxRetries}}
        \cup {[NoArgs EXCEPT !.api_key = PyStr("param_key"), !.sender_id = PyChars(s)] :
                 s \in DefaultSenderIds \ {TestSender}}

NoCtor == [called |-> FALSE, args |-> NoArgs]

NoLookup == [name |-> "", default |-> Absent, result |-> Absent]

\* Nothing has been constructed or looked up.
NoConfig ==
    /\ ctor = NoCtor
    /\ lookup = NoLookup
    /\ overridden = FALSE
    /\ client = NoClient

Init ==
    /\ settings \in SpecSettings
    /\ NoConfig
    /\ call = NoCall
    /\ requests = <<>>
    /\ outcome = NoOutcome
    /\ num = <<>>
    /\ vres = "none"
    /\ fres = NotFormatted
    /\ ffres = NotFormatted
    /\ NoText

\* BulkSMSClient(...) with the arguments args: the caller holds the instance
\* if __init__ returns, and the exception if it raises.
ConstructWith(args) ==
    /\ ~ctor.called
    /\ LET made == init(settings, args)
       IN  /\ client' = made.self
           /\ outcome' = made.outcome
    /\ ctor' = [called |-> TRUE, args |-> args]
    /\ UNCHANGED <<settings, lookup, overridden, call, requests, phoneVars, textVars>>

Construct == \E args \in CtorSamples : ConstructWith(args)

\* A faulty variant: a sender_id passed to a call becomes the default of the
\* instance (self.sender_id = sender_id or self.sender_id).
Ends_keeps_sender_id(c, script, ended) ==
    /\ call' =
           IF ended.requests = <<>>
           THEN c
           ELSE LET sent == session_request(client.session, ended.requests[1].method, script)
                IN  [c EXCEPT !.reply = sent.reply,
                              !.script = script,
                              !.attempts = [i \in 1..sent.attempts |-> At(script, i)]]
    /\ requests' = ended.requests
    /\ outcome' = ended.outcome
    /\ client' = [client EXCEPT !.sender_id = IF c.sender_id # <<>> THEN c.sender_id ELSE @]
    /\ UNCHANGED <<overridden, configVars, phoneVars, textVars>>

\* The call ends: the caller has what it returned or raised.  The attempts
\* made and what session.request() ended with are kept with the call.
Ends(c, script, ended) ==
    /\ call' =
           IF ended.requests = <<>>
           THEN c
           ELSE LET sent == session_request(client.session, ended.requests[1].method, script)
                IN  [c EXCEPT !.reply = sent.reply,
                              !.script = script,
                              !.attempts = [i \in 1..sent.attempts |-> At(script, i)]]
    /\ requests' = ended.requests
    /\ outcome' = ended.outcome
    /\ UNCHANGED <<client, overridden, configVars, phoneVars, textVars>>

SendSms ==
    /\ client.constructed
    /\ call.op = "none"
    /\ \E numbers \in SeqsUpTo(PhoneSamples, MaxRecipients), as_list \in BOOLEAN,
          message \in MessageSamples, sender_id \in SenderIdSamples :
          /\ ~as_list => Len(numbers) = 1
          /\ \E script \in ScriptsTo(client, send_sms(client, numbers, message, sender_id,
                                                      NoScript)) :
                Ends([NoCall EXCEPT !.op = "send_sms", !.phone_numbers = numbers,
                                    !.as_list = as_list, !.message = message,
                                    !.sender_id = sender_id],
                     script, send_sms(client, numbers, message, sender_id, script))

SendBulkSms ==
    /\ client.constructed
    /\ call.op = "none"
    /\ \E messages \in SeqsUpTo(PairSamples, MaxPairs), sender_id \in SenderIdSamples :
          \E script \in ScriptsTo(client, send_bulk_sms(client, messages, sender_id, NoScript)) :
             Ends([NoCall EXCEPT !.op = "send_bulk_sms", !.messages = messages,
                                 !.sender_id = sender_id],
                  script, send_bulk_sms(client, messages, sender_id, script))

GetBalance ==
    /\ client.constructed
    /\ call.op = "none"
    /\ \E script \in ScriptsTo(client, get_balance(client, NoScript)) :
          Ends([NoCall EXCEPT !.op = "get_balance"], script, get_balance(client, script))

SendOtp ==
    /\ client.constructed
    /\ call.op = "none"
    /\ \E phone_number \in PhoneSamples, otp \in OtpSamples, sender_id \in SenderIdSamples :
          LET otp_code == otp[1]
              brand_name == otp[2]
          IN
          \E script \in ScriptsTo(client, send_otp(client, phone_number, otp_code, brand_name,
                                                   sender_id, NoScript)) :
             Ends([NoCall EXCEPT !.op = "send_otp", !.phone_numbers = <<phone_number>>,
                                 !.otp_code = otp_code, !.brand_name = brand_name,
                                 !.sender_id = sender_id],
                  script,
                  send_otp(client, phone_number, otp_code, brand_name, sender_id, script))

TestConnection ==
    /\ client.constructed
    /\ call.op = "none"
    /\ \E script \in ScriptsTo(client, test_connection(client, NoScript)) :
          Ends([NoCall EXCEPT !.op = "test_connection"], script,
               test_connection(client, script))

\* _handle_api_error called on its own (as the tests call it), with a reply
\* and the code of that reply.
HandleApiError ==
    /\ client.constructed
    /\ call.op = "none"
    /\ \E response_data \in {d \in DictSamples : d.hascode} :
          /\ call' = [NoCall EXCEPT !.op = "_handle_api_error",
                                    !.reply = HttpResponse(200, "json", TRUE, response_data)]
          /\ requests' = <<>>
          /\ outcome' = handle_api_error(response_data.code, response_data)
          /\ UNCHANGED <<client, overridden, configVars, phoneVars, textVars>>

\* The caller goes on to its next call.
NextCall ==
    /\ call.op # "none"
    /\ call' = NoCall
    /\ requests' = <<>>
    /\ outcome' = NoOutcome
    /\ overridden' = (overridden \/ call.sender_id # <<>>)
    /\ UNCHANGED <<client, configVars, phoneVars, textVars>>

Next ==
    \/ Construct
    \/ SendSms
    \/ SendBulkSms
    \/ GetBalance
    \/ SendOtp
    \/ TestConnection
    \/ HandleApiError
    \/ NextCall

Spec == Init /\ [][Next]_vars

-----------------------------------------------------------------------------
(* The phone numbers the utils functions are applied to: a few well-formed *)
(* numbers and every string at most MaxEdits single-character edits away   *)
(* from one of them.                                                       *)

MaxEdits == 1

BasePhones ==
    { <<>>,
      <<"0", "1", "7", "1", "2", "3", "4", "5", "6", "7", "8">>,
      <<"8", "8", "0", "1", "7", "1", "2", "3", "4", "5", "6", "7", "8">>,
      <<"+", "8", "8", "0", "1", "7", "1", "2", "3", "4", "5", "6", "7", "8">>,
      <<"+", "0", "1", "7", "-", "1", "2", "3", "4", " ", "5", "6", "7", "8">> }

EditChars == {"0", "2", "9", "+", "-", " ", "\t", "a", BengaliDigit}

LongestBase ==
    CHOOSE n \in {Len(b) : b \in BasePhones} : \A b \in BasePhones : Len(b) <= n

\* One single-character edit: insert char after position pos, delete or
\* replace the character at pos, or leave the string as it is.
EditOps ==
    {[kind |-> "insert", pos |-> i, char |-> c] :
        i \in 0..(LongestBase + MaxEdits), c \in EditChars}
        \cup {[kind |-> "replace", pos |-> i, char |-> c] :
                 i \in 1..(LongestBase + MaxEdits), c \in EditChars}
        \cup {[kind |-> "delete", pos |-> i, char |-> ""] :
                 i \in 1..(LongestBase + MaxEdits)}
        \cup {[kind |-> "keep", pos |-> 0, char |-> ""]}

ApplyEdit(op, s) ==
    IF op.kind = "keep" \/ op.pos > Len(s)
    THEN s
    ELSE IF op.kind = "insert"
    THEN SubSeq(s, 1, op.pos) \o <<op.char>> \o SubSeq(s, op.pos + 1, Len(s))
    ELSE IF op.kind = "replace"
    THEN [s EXCEPT ![op.pos] = op.char]
    ELSE SubSeq(s, 1, op.pos - 1) \o SubSeq(s, op.pos + 1, Len(s))

RECURSIVE ApplyEdits(_, _)
ApplyEdits(ops, s) ==
    IF ops = <<>> THEN s ELSE ApplyEdits(Tail(ops), ApplyEdit(Head(ops), s))

-----------------------------------------------------------------------------
(* The utils functions applied to one phone number, in the order the       *)
(* client applies them (validate, then format); the formatter is applied   *)
(* once more to its own result.                                            *)

InitPhone ==
    /\ \E base \in BasePhones, ops \in [1..MaxEdits -> EditOps] :
          num = ApplyEdits(ops, base)
    /\ vres = "none"
    /\ fres = NotFormatted
    /\ ffres = NotFormatted
    /\ NoText
    /\ settings = NoSettings
    /\ NoConfig
    /\ call = NoCall
    /\ requests = <<>>
    /\ outcome = NoOutcome

ValidatePhone ==
    /\ vres = "none"
    /\ vres' = validate_phone_number(num)
    /\ UNCHANGED <<num, fres, ffres, clientVars, textVars>>

FormatPhone ==
    /\ ~fres.done
    /\ fres' = Formatted(format_phone_number(num))
    /\ UNCHANGED <<num, vres, ffres, clientVars, textVars>>

FormatAgain ==
    /\ fres.done
    /\ ~ffres.done
    /\ ffres' = Formatted(format_phone_number(fres.val))
    /\ UNCHANGED <<num, vres, fres, clientVars, textVars>>

NextPhone == ValidatePhone \/ FormatPhone \/ FormatAgain

SpecPhone == InitPhone /\ [][NextPhone]_vars

-----------------------------------------------------------------------------
(* The messages and sender IDs the utils functions are applied to: every   *)
(* length from 0 to MaxExcess characters past the longest one allowed, in  *)
(* a few shapes (text, whitespace, and one character of another kind).     *)

MaxExcess == 2

\* c * n
Repeat(c, n) == [i \in 1..n |-> c]

MessageShapes == {"text", "blank", "tabs_then_text", "text_then_newlines"}

MessageOf(shape, n) ==
    IF n = 0 THEN <<>>
    ELSE IF shape = "text" THEN Repeat("a", n)
    ELSE IF shape = "blank" THEN Repeat(" ", n)
    ELSE IF shape = "tabs_then_text" THEN Repeat("\t", n - 1) \o <<"!">>
    ELSE <<"a">> \o Repeat("\n", n - 1)

SenderChars == {"a", "Z", "9", " ", "-", ".", "_", "#", "\t", "\n", BengaliDigit}

\* n letters with the character at pos replaced by c
SenderOf(n, pos, c) == [Repeat("a", n) EXCEPT ![pos] = c]

InitMessage ==
    /\ \E n \in 0..(MaxMessageLen + MaxExcess), shape \in MessageShapes :
          msgArg = MessageOf(shape, n)
    /\ mres = "none"
    /\ parts = NotCounted
    /\ sidArg = <<>>
    /\ sres = "none"
    /\ num = <<>>
    /\ vres = "none"
    /\ fres = NotFormatted
    /\ ffres = NotFormatted
    /\ settings = NoSettings
    /\ NoConfig
    /\ call = NoCall
    /\ requests = <<>>
    /\ outcome = NoOutcome

ValidateMessage ==
    /\ mres = "none"
    /\ mres' = validate_message(msgArg)
    /\ UNCHANGED <<msgArg, parts, sidArg, sres, phoneVars, clientVars>>

GetMessageParts ==
    /\ ~parts.done
    /\ parts' = Counted(get_message_parts(msgArg))
    /\ UNCHANGED <<msgArg, mres, sidArg, sres, phoneVars, clientVars>>

NextMessage == ValidateMessage \/ GetMessageParts

SpecMessage == InitMessage /\ [][NextMessage]_vars

InitSender ==
    /\ \/ sidArg = <<>>
       \/ \E n \in 1..(MaxSenderIdLen + MaxExcess), pos \in 1..(MaxSenderIdLen + MaxExcess),
             c \in SenderChars :
             pos <= n /\ sidArg = SenderOf(n, pos, c)
       \/ \E n \in 1..(MaxSenderIdLen + MaxExcess) : sidArg = Repeat(" ", n)
    /\ sres = "none"
    /\ msgArg = <<>>
    /\ mres = "none"
    /\ parts = NotCounted
    /\ num = <<>>
    /\ vres = "none"
    /\ fres = NotFormatted
    /\ ffres = NotFormatted
    /\ settings = NoSettings
    /\ NoConfig
    /\ call = NoCall
    /\ requests = <<>>
    /\ outcome = NoOutcome

ValidateSenderId ==
    /\ sres = "none"
    /\ sres' = validate_sender_id(sidArg)
    /\ UNCHANGED <<sidArg, msgArg, mres, parts, phoneVars, clientVars>>

NextSender == ValidateSenderId

SpecSender == InitSender /\ [][NextSender]_vars

-----------------------------------------------------------------------------
(* The settings a project may have, the constructor calls made under them  *)
(* and the lookups of single settings.                                     *)

ParamSender == <<"P", "a", "r", "a", "m", "S", "e", "n", "d", "e", "r">>

DictSender == <<"D", "i", "c", "t">>

\* The attributes BULKSMS_<name>: an API key that is not set, None, '' or a
\* key; a sender ID or none; the five other settings, all or none.
AttrSamples ==
    {[n \in SettingNames |->
         CASE n = "API_KEY" -> key
           [] n = "SENDER_ID" -> sender
           [] n = "BASE_URL" -> IF others THEN PyStr("https://sms.example/api") ELSE Absent
           [] n = "TIMEOUT" -> IF others THEN PyInt(60) ELSE Absent
           [] n = "MAX_RETRIES" -> IF others THEN PyInt(5) ELSE Absent
           [] n = "BACKOFF_FACTOR" -> IF others THEN PyTenths(10) ELSE Absent
           [] OTHER -> IF others THEN PyBool(TRUE) ELSE Absent] :
        key \in {Absent, PyNone, PyStr(""), PyStr("test_api_key")},
        sender \in {Absent, PyChars(TestSender)},
        others \in BOOLEAN}

\* settings.BULKSMS: not set, a value that is not a dict, an empty dict, a
\* dict with every name, a dict whose API_KEY is None.
BulksmsSamples ==
    {NoBulksms,
     [NoBulksms EXCEPT !.typ = "other"],
     [NoBulksms EXCEPT !.typ = "dict"],
     [typ |-> "dict",
      entries |->
          [n \in SettingNames |->
              CASE n = "API_KEY" -> PyStr("dict_key")
                [] n = "SENDER_ID" -> PyChars(DictSender)
                [] n = "BASE_URL" -> PyStr("https://dict.example/api")
                [] n = "TIMEOUT" -> PyInt(45)
                [] n = "MAX_RETRIES" -> PyInt(1)
                [] n = "BACKOFF_FACTOR" -> PyTenths(20)
                [] OTHER -> PyBool(TRUE)]],
     [typ |-> "dict", entries |-> [NoBulksms.entries EXCEPT !["API_KEY"] = PyNone]]}

ConfigSettings == {Settings(attrs, bulksms) : attrs \in AttrSamples, bulksms \in BulksmsSamples}

\* The constructor calls: an API key that is not passed, '' or a key; a
\* sender ID or none; the other five arguments all passed, none passed, or
\* base_url=None alone.
ConfigCtorSamples ==
    {[base_url |-> CASE others = "all" -> PyStr("https://param.example/api")
                     [] others = "base_url_none" -> PyNone
                     [] OTHER -> Absent,
      api_key |-> key,
      sender_id |-> sender,
      timeout |-> IF others = "all" THEN PyInt(10) ELSE Absent,
      max_retries |-> IF others = "all" THEN PyInt(1) ELSE Absent,
      backoff_factor |-> IF others = "all" THEN PyTenths(3) ELSE Absent,
      verify_ssl |-> IF others = "all" THEN PyBool(FALSE) ELSE Absent] :
        key \in {Absent, PyStr(""), PyStr("param_key")},
        sender \in {Absent, PyChars(ParamSender)},
        others \in {"all", "none", "base_url_none"}}

InitConfig ==
    /\ settings \in ConfigSettings
    /\ NoConfig
    /\ call = NoCall
    /\ requests = <<>>
    /\ outcome = NoOutcome
    /\ num = <<>>
    /\ vres = "none"
    /\ fres = NotFormatted
    /\ ffres = NotFormatted
    /\ NoText

Configure == \E args \in ConfigCtorSamples : ConstructWith(args)

\* get_bulksms_setting(name, default), called on its own
GetSetting ==
    /\ lookup = NoLookup
    /\ \E name \in SettingNames, default \in {PyNone, PyStr("fallback")} :
          lookup' = [name |-> name, default |-> default,
                     result |-> get_bulksms_setting(settings, name, default)]
    /\ UNCHANGED <<settings, ctor, overridden, client, call, requests, outcome, phoneVars,
                   textVars>>

NextConfig == Configure \/ GetSetting

SpecConfig == InitConfig /\ [][NextConfig]_vars

-----------------------------------------------------------------------------
(* What the properties below speak of.                                     *)

\* The operations whose failures reach the caller.
Propagating == {"send_sms", "send_bulk_sms", "get_balance", "send_otp"}

ReplyData == call.reply.data

ReplyCode == ReplyData.code

\* The last operation issued its request and got a reply with status < 400
\* whose body parsed to a dict.
DictReplied ==
    /\ call.op \in Propagating
    /\ requests # <<>>
    /\ call.reply.kind = "response"
    /\ call.reply.status < 400
    /\ call.reply.json_ok
    /\ ReplyData.isdict

\* The error mapper ran on the reply: called on its own, or by the request
\* executor (which hands it the codes that are truthy and not 202).
MapperInvoked ==
    \/ call.op = "_handle_api_error"
    \/ DictReplied /\ ReplyData.hascode /\ Truthy(ReplyCode) /\ ~EqualsInt(ReplyCode, 202)

\* The failure carries the reply's code and the raw reply payload.
CarriesReply ==
    /\ outcome.error_code = ReplyCode
    /\ outcome.response = DataResponse(ReplyData)

\* The category the table of the specification gives a code ("" for none).
DocumentedCategory(n) ==
    IF n \in {1011, 1032} THEN "BulkSMSAuthenticationError"
    ELSE IF n \in {1006, 1007} THEN "BulkSMSBalanceError"
    ELSE IF n = 1001 THEN "BulkSMSInvalidNumberError"
    ELSE IF n \in {1002, 1003, 1013, 1014, 1015, 1016, 1017, 1018, 1019, 1020,
                   1021, 1031} THEN "BulkSMSConfigurationError"
    ELSE ""

\* C1: for a reply with code 1011 or 1032 the error mapper raises
\* BulkSMSAuthenticationError, for 1006 or 1007 BulkSMSBalanceError, for 1001
\* BulkSMSInvalidNumberError; the failure is a BulkSMSAPIError whose
\* error_code is the reply's code and whose response is the reply payload.
C1_DocumentedCodesMapped ==
    MapperInvoked /\ InIntList(ReplyCode, {1011, 1032, 1006, 1007, 1001}) =>
        /\ outcome.kind = "raise"
        /\ outcome.cls = DocumentedCategory(ReplyCode.num)
        /\ IsSubclass(outcome.cls, "BulkSMSAPIError")
        /\ CarriesReply

\* send_sms to one valid number, answered {code: 1007}, has raised a Balance
\* failure carrying 1007.
C1_Witness ==
    /\ call.op = "send_sms"
    /\ DictReplied
    /\ ReplyCode = IntCode(1007)
    /\ outcome.cls = "BulkSMSBalanceError"
    /\ outcome.error_code = IntCode(1007)

\* C2: for a reply with code 1002, 1003, 1013..1021 or 1031 the error mapper
\* raises BulkSMSConfigurationError carrying the code and the reply payload.
C2_ConfigurationCodesMapped ==
    MapperInvoked /\ InIntList(ReplyCode, {1002, 1003, 1013, 1014, 1015, 1016, 1017,
                                           1018, 1019, 1020, 1021, 1031}) =>
        /\ outcome.kind = "raise"
        /\ outcome.cls = "BulkSMSConfigurationError"
        /\ CarriesReply

\* C3: for a code that is not 202 and not in the category table the error
\* mapper raises BulkSMSAPIError itself (no subtype, no other error) and
\* does not return.
C3_UnknownCodesGeneric ==
    MapperInvoked /\ ~EqualsInt(ReplyCode, 202) /\ ~InIntList(ReplyCode, CategoryCodes) =>
        /\ outcome.kind = "raise"
        /\ outcome.cls = "BulkSMSAPIError"

\* The mapper has run on 9999, 1005 or 1012 for a facade operation.
C3_Witness ==
    /\ call.op \in Propagating
    /\ MapperInvoked
    /\ InIntList(ReplyCode, {9999, 1005, 1012})
    /\ outcome.cls = "BulkSMSAPIError"

\* C4: for a reply with status < 400 and a dict body: code 202 returns the
\* payload; a code that is present and is not 202 (0 and other falsy values
\* included) raises a typed API failure and returns nothing; no code returns
\* the payload as it is.
C4_Only202Succeeds ==
    DictReplied =>
        IF ~ReplyData.hascode \/ EqualsInt(ReplyCode, 202)
        THEN outcome = Return(ReplyData)
        ELSE outcome.kind = "raise" /\ IsSubclass(outcome.cls, "BulkSMSAPIError")

\* sender_id or self.sender_id
EffectiveSender == IF call.sender_id # <<>> THEN call.sender_id ELSE client.sender_id

\* The message of the last send_sms or send_otp call.
CallMessage ==
    IF call.op = "send_otp"
    THEN OtpMessage(call.brand_name, call.otp_code)
    ELSE call.message

\* An argument of the last send_sms or send_otp call fails its validator.
SmsArgumentInvalid ==
    \/ validate_message(CallMessage) # "ok"
    \/ validate_sender_id(EffectiveSender) # "ok"
    \/ \E i \in 1..Len(call.phone_numbers) :
          validate_phone_number(call.phone_numbers[i]) # "ok"

\* An argument of the last send_bulk_sms call fails validation.
BulkArgumentInvalid ==
    \/ call.messages = <<>>
    \/ validate_sender_id(EffectiveSender) # "ok"
    \/ \E i \in 1..Len(call.messages) :
          \/ Malformed(call.messages[i])
          \/ validate_phone_number(call.messages[i].to) # "ok"
          \/ validate_message(call.messages[i].message) # "ok"

\* C5: an operation one of whose arguments fails validation raises
\* BulkSMSValidationError and has issued no HTTP request, also when earlier
\* recipients or pairs of the call were valid.
C5_ValidationBeforeRequest ==
    /\ \/ call.op \in {"send_sms", "send_otp"} /\ SmsArgumentInvalid
       \/ call.op = "send_bulk_sms" /\ BulkArgumentInvalid
       => /\ outcome.kind = "raise"
          /\ outcome.cls = ValidationError
          /\ requests = <<>>
    /\ outcome.cls = ValidationError => requests = <<>>

\* send_sms to a valid number followed by an invalid one has failed, and a
\* send_bulk_sms whose second pair is invalid has failed.
C5_Witness ==
    /\ outcome.cls = ValidationError
    /\ requests = <<>>
    /\ \/ call.op = "send_sms" /\ call.phone_numbers = <<LocalNumber, ShortNumber>>
       \/ /\ call.op = "send_bulk_sms"
          /\ call.messages = <<Pair(LocalNumber, Hello), Pair(ShortNumber, Hello)>>

\* The canonical form of a valid number: 880 and the ten digits of the
\* subscriber number.
Canonical(number) ==
    LET digits == SelectSeq(number, LAMBDA c : c \in UnicodeDigits)
    IN  <<"8", "8", "0">> \o SubSeq(digits, Len(digits) - 9, Len(digits))

\* C6: a valid send_sms call issues exactly one POST to {base}/smsapi with
\* api_key, senderid, message and number = the canonical forms of the
\* recipients joined by commas in input order; a reply with code 202 is
\* returned unchanged.
C6_SendSmsRequest ==
    call.op = "send_sms" /\ ~SmsArgumentInvalid =>
        /\ Len(requests) = 1
        /\ requests[1].method = "POST"
        /\ requests[1].url = <<client.base_url, "/smsapi">>
        /\ requests[1].data.kind = "sms"
        /\ requests[1].data.api_key = client.api_key
        /\ requests[1].data.senderid = EffectiveSender
        /\ requests[1].data.message = call.message
        /\ requests[1].data.number =
               Join([i \in 1..Len(call.phone_numbers) |-> Canonical(call.phone_numbers[i])],
                    <<",">>)
        /\ DictReplied /\ ReplyData.hascode /\ EqualsInt(ReplyCode, 202)
               => outcome = Return(ReplyData)

\* C7: send_bulk_sms raises BulkSMSValidationError when the list is empty or
\* a pair lacks 'to' or 'message'; when every pair is valid it issues exactly
\* one POST to {base}/smsapimany whose messages field is the serialized list,
\* in input order, of {to, message} with 'to' in canonical form.
C7_SendBulkSmsRequest ==
    call.op = "send_bulk_sms" =>
        /\ \/ call.messages = <<>>
           \/ \E i \in 1..Len(call.messages) : Malformed(call.messages[i])
           => outcome.kind = "raise" /\ outcome.cls = ValidationError
        /\ ~BulkArgumentInvalid =>
               /\ Len(requests) = 1
               /\ requests[1].method = "POST"
               /\ requests[1].url = <<client.base_url, "/smsapimany">>
               /\ requests[1].data.messages =
                      json_dumps([i \in 1..Len(call.messages) |->
                                     [to |-> Canonical(call.messages[i].to),
                                      message |-> call.messages[i].message]])

\* A number as the specification reads it: without the separators, without
\* one leading '+'.
Unseparated(number, separators) ==
    LET kept == SelectSeq(number, LAMBDA c : c \notin separators)
    IN  IF kept # <<>> /\ Head(kept) = "+" THEN Tail(kept) ELSE kept

\* 01[3-9] and 8 digits
IsLocalForm(s, digits) ==
    /\ Len(s) = 11
    /\ s[1] = "0"
    /\ s[2] = "1"
    /\ s[3] \in {"3", "4", "5", "6", "7", "8", "9"}
    /\ \A i \in 4..11 : s[i] \in digits

\* 8801[3-9] and 8 digits
IsCountryForm(s, digits) ==
    /\ Len(s) = 13
    /\ SubSeq(s, 1, 2) = <<"8", "8">>
    /\ IsLocalForm(SubSeq(s, 3, 13), digits)

WellFormed(number, separators, digits) ==
    LET s == Unseparated(number, separators)
    IN  IsLocalForm(s, digits) \/ IsCountryForm(s, digits)

\* C8: for a number that without its spaces and hyphens and one leading '+'
\* is 01[3-9] and 8 digits, or 880 before 1[3-9] and 8 digits,
\* validate_phone_number succeeds and format_phone_number returns 880 and
\* the ten-digit subscriber number (13 digits), which itself validates.
C8_ValidNumbersFormatCanonical ==
    vres # "none" /\ fres.done /\ WellFormed(num, {" ", "-"}, AsciiDigits) =>
        /\ vres = "ok"
        /\ Len(fres.val) = 13
        /\ fres.val = Canonical(num)
        /\ validate_phone_number(fres.val) = "ok"

IsCanonical(s) == Len(s) = 13 /\ StartsWith(s, <<"8", "8", "0">>) /\ \A i \in 1..13 : s[i] \in AsciiDigits

\* C10: format_phone_number(format_phone_number(x)) = format_phone_number(x)
\* for every x, and a canonical number (880 and 10 digits) is returned
\* unchanged.
C10_FormatIdempotent ==
    /\ ffres.done => ffres.val = fres.val
    /\ fres.done /\ IsCanonical(num) => fres.val = num

\* A number that formatting changes ('+', separators, no country code) has
\* been formatted twice.
C10_Witness ==
    /\ ffres.done
    /\ StartsWith(num, <<"+", "0", "1">>)
    /\ fres.val # num
    /\ ffres.val = fres.val

\* A string without a character that is not whitespace.
OnlyWhitespace(s) == SelectSeq(s, LAMBDA c : c \notin Whitespace) = <<>>

Breakpoints == <<160, 306, 459, 612, 765, 918, 1071, 1224, 1377, 1530>>

\* The segment count the table gives a length: one more than the number of
\* breakpoints below the length.
TableParts(n) == 1 + Cardinality({i \in 1..Len(Breakpoints) : Breakpoints[i] < n})

C13_SenderIdValidation ==
    sres # "none" =>
        (sres = ValidationError <=>
            \/ Len(sidArg) = 0
            \/ Len(sidArg) > 20
            \/ \E i \in 1..Len(sidArg) :
                  sidArg[i] \notin AsciiLetters \cup AsciiDigits \cup {" ", "-", "."})

\* The attempts session.request() made during the last call, and the last
\* of them.
Attempts == call.attempts

LastAttempt == Attempts[Len(Attempts)]

\* max_retries of the client
MaxRetriesOf == client.session.max_retries.total

\* A connection-level error: the connection is not opened, is not opened in
\* time, is reset, or gives no response in time.
ConnectionLevel(result) ==
    result.kind \in {"NewConnectionError", "ConnectTimeoutError", "ProtocolError",
                     "ReadTimeoutError"}

\* A response with one of the statuses 429, 500, 502, 503, 504.
RetriableStatus(result) ==
    result.kind = "response" /\ result.status \in {429, 500, 502, 503, 504}

\* A response with status < 400 whose body is a dict with a code.
CodeReply(result) ==
    /\ result.kind = "response"
    /\ result.status < 400
    /\ result.json_ok
    /\ result.data.isdict
    /\ result.data.hascode

\* C14: test_connection never raises; it calls get_balance once and returns
\* True if get_balance returns and False for every failure of get_balance
\* (Network, Timeout, API or any other).
C14_TestConnectionNeverRaises ==
    call.op = "test_connection" =>
        /\ outcome.kind = "return_bool"
        /\ Len(requests) = 1
        /\ requests[1] =
               HttpRequest("GET", <<client.base_url, "/getBalanceApi">>, NoData,
                           [kind |-> "params", api_key |-> client.api_key])
        /\ outcome.flag <=> get_balance(client, call.script).outcome.kind = "return"
        /\ LastAttempt.kind # "response" \/ LastAttempt.status >= 400 => ~outcome.flag
        /\ CodeReply(LastAttempt) /\ InIntList(LastAttempt.data.code, CategoryCodes)
               => ~outcome.flag
        /\ LastAttempt.kind = "response" /\ LastAttempt.status < 400
               /\ ~LastAttempt.data.hascode => outcome.flag

\* test_connection has returned False for a Balance failure, for a missing
\* from_response and for a timeout.
C14_Witness ==
    /\ call.op = "test_connection"
    /\ outcome = ReturnBool(FALSE)
    /\ CodeReply(LastAttempt)
    /\ LastAttempt.data.code = IntCode(1007)
    /\ get_balance(client, call.script).outcome.cls = "BulkSMSBalanceError"

\* The last attempt of the call failed: an error, a status >= 400, or a
\* code that is present, is not null and is not 202.
AttemptFailed(result) ==
    \/ result.kind # "response"
    \/ result.status >= 400
    \/ /\ CodeReply(result)
       /\ result.data.code # NullCode
       /\ ~EqualsInt(result.data.code, 202)

\* C15: a failure in send_sms, send_bulk_sms, get_balance or send_otp reaches
\* the caller as one of the typed failures (a BulkSMSError); a call whose
\* request failed does not return normally; and a call either returns the
\* parsed response or raises.
C15_FailuresPropagateTyped ==
    call.op \in Propagating =>
        /\ outcome.kind \in {"return", "raise"}
        /\ outcome.kind = "raise" => IsSubclass(outcome.cls, "BulkSMSError")
        /\ requests # <<>> /\ AttemptFailed(LastAttempt) => outcome.kind = "raise"
        /\ outcome.kind = "return" =>
               /\ call.reply.kind = "response"
               /\ outcome.value =
                      IF call.reply.json_ok
                      THEN call.reply.data
                      ELSE Dict(TRUE, NullCode, TRUE, call.reply.text, "")

\* C16: with max_retries >= 1, a call whose first attempt ends with a
\* connection-level error and whose second attempt is answered with code 202
\* returns that reply after two attempts and raises nothing.
C16_RetryOnceThenSuccess ==
    /\ call.op \in Propagating
    /\ requests # <<>>
    /\ MaxRetriesOf >= 1
    /\ Len(call.script) = 2
    /\ ConnectionLevel(call.script[1])
    /\ CodeReply(call.script[2])
    /\ EqualsInt(call.script[2].data.code, 202)
    => /\ Len(Attempts) = 2
       /\ Len(requests) = 1
       /\ outcome = Return(call.script[2].data)

\* send_sms has returned the 202 reply of its second attempt after a
\* connection reset.
C16_Witness ==
    /\ call.op = "send_sms"
    /\ Len(Attempts) = 2
    /\ Attempts[1].kind = "ProtocolError"
    /\ outcome.kind = "return"
    /\ EqualsInt(outcome.value.code, 202)

C18_RejectionNotRetried ==
    /\ call.op \in Propagating
    /\ requests # <<>>
    /\ \E i \in 1..Len(Attempts) :
          /\ CodeReply(Attempts[i])
          /\ Attempts[i].data.code # NullCode
          /\ ~EqualsInt(Attempts[i].data.code, 202)
    => /\ CodeReply(LastAttempt)
       /\ \A i \in 1..(Len(Attempts) - 1) : ~CodeReply(Attempts[i])
       /\ CodeReply(call.script[1]) => Len(Attempts) = 1
       /\ outcome.kind = "raise"
       /\ \/ IsSubclass(outcome.cls, "BulkSMSAPIError")
          \/ outcome.cls = "BulkSMSConfigurationError"
       /\ CarriesReply

\* C19: when the last response of a call has status >= 400 (429, 500 and
\* the other retried statuses included) the call raises BulkSMSNetworkError
\* with error_code = the status and response = the raw body, whatever code
\* the body holds.
C19_HttpErrorIsNetworkError ==
    /\ call.op \in Propagating
    /\ requests # <<>>
    /\ LastAttempt.kind = "response"
    /\ LastAttempt.status >= 400
    => /\ outcome.kind = "raise"
       /\ outcome.cls = "BulkSMSNetworkError"
       /\ outcome.error_code = IntCode(LastAttempt.status)
       /\ outcome.response = TextResponse(LastAttempt.text)

\* C20: a call whose last attempt timed out raises BulkSMSTimeoutError, a
\* subclass of BulkSMSNetworkError; one whose last attempt ended with another
\* transport error raises BulkSMSNetworkError itself, with the cause in its
\* message; neither raises an API or Validation failure.
C20_TimeoutAndConnectionFailures ==
    call.op \in Propagating /\ requests # <<>> /\ LastAttempt.kind # "response" =>
        /\ outcome.kind = "raise"
        /\ IsSubclass(outcome.cls, "BulkSMSNetworkError")
        /\ ~IsSubclass(outcome.cls, "BulkSMSAPIError")
        /\ outcome.cls # ValidationError
        /\ IF LastAttempt.kind \in {"ConnectTimeoutError", "ReadTimeoutError"}
           THEN outcome.cls = "BulkSMSTimeoutError"
           ELSE /\ outcome.cls = "BulkSMSNetworkError"
                /\ outcome.message[Len(outcome.message)] = LastAttempt.kind

\* C21: a reply with status < 400 whose body does not parse is returned to
\* the caller as the envelope {message: the raw body, code: None}; nothing is
\* raised for it.
C21_UnparseableBodyReturned ==
    /\ call.op \in Propagating
    /\ requests # <<>>
    /\ call.reply.kind = "response"
    /\ call.reply.status < 400
    /\ ~call.reply.json_ok
    => /\ outcome.kind = "return"
       /\ outcome.value = Dict(TRUE, NullCode, TRUE, call.reply.text, "")

\* send_sms, answered 200 with a body that is not JSON, has returned the
\* envelope holding that body.
C21_Witness ==
    /\ call.op = "send_sms"
    /\ call.reply = HttpResponse(200, "text", FALSE, NoPayload)
    /\ outcome = Return(Dict(TRUE, NullCode, TRUE, "text", ""))

\* What the settings hold for a name: the attribute BULKSMS_<name>, or else
\* the entry of the BULKSMS dict.
Configured(name) ==
    IF settings.attrs[name].typ # "absent"
    THEN settings.attrs[name]
    ELSE IF settings.BULKSMS.typ = "dict"
    THEN settings.BULKSMS.entries[name]
    ELSE Absent

\* A value for the name is passed to the constructor or is in the settings.
Available(arg, name) == PyTruthy(arg) \/ PyTruthy(Configured(name))

\* The constructor has raised the Configuration failure that names what.
FailedFor(what) ==
    /\ outcome.kind = "raise"
    /\ outcome.cls = "BulkSMSConfigurationError"
    /\ outcome.message[1] = what
    /\ ~client.constructed
    /\ ~client.session.made
    /\ call.op = "none"
    /\ requests = <<>>

\* C22: BulkSMSClient(...) raises BulkSMSConfigurationError when no API key
\* is passed or set, and when no sender ID is; the API key is reported when
\* both are missing; after the failure there is no client and no session,
\* and no operation is invoked.
C22_ConstructionFailsFast ==
    /\ ctor.called =>
           IF ~Available(ctor.args.api_key, "API_KEY")
           THEN FailedFor("API key")
           ELSE IF ~Available(ctor.args.sender_id, "SENDER_ID")
           THEN FailedFor("Sender ID")
           ELSE client.constructed /\ client.session.made
    /\ ~client.constructed => call.op = "none" /\ requests = <<>>

\* BulkSMSClient() with neither an API key nor a sender ID set has failed
\* for the API key.
C22_Witness ==
    /\ ctor = [called |-> TRUE, args |-> NoArgs]
    /\ ~PyTruthy(Configured("API_KEY"))
    /\ ~PyTruthy(Configured("SENDER_ID"))
    /\ FailedFor("API key")

\* The value the instance has for a setting.
ClientValue(name) ==
    CASE name = "API_KEY" -> PyStr(client.api_key)
      [] name = "SENDER_ID" -> PyChars(client.sender_id)
      [] name = "BASE_URL" -> PyStr(client.base_url)
      [] name = "TIMEOUT" -> PyInt(client.timeout)
      [] name = "MAX_RETRIES" -> PyInt(client.session.max_retries.total)
      [] name = "BACKOFF_FACTOR" -> PyTenths(client.session.max_retries.backoff_factor)
      [] OTHER -> PyBool(client.verify_ssl)

\* The constructor's argument for a setting.
CtorArg(name) ==
    CASE name = "API_KEY" -> ctor.args.api_key
      [] name = "SENDER_ID" -> ctor.args.sender_id
      [] name = "BASE_URL" -> ctor.args.base_url
      [] name = "TIMEOUT" -> ctor.args.timeout
      [] name = "MAX_RETRIES" -> ctor.args.max_retries
      [] name = "BACKOFF_FACTOR" -> ctor.args.backoff_factor
      [] OTHER -> ctor.args.verify_ssl

\* An argument that is passed and is a value (not None, not '').
Passed(arg) == arg.typ \notin {"absent", "none"} /\ arg # PyStr("")

\* C23: the instance has, for each of API key, sender ID, base URL, timeout,
\* max retries, backoff factor and TLS verification flag, the value passed
\* to the constructor, and the value of the settings when none is passed.
C23_SettingsResolved ==
    ctor.called /\ client.constructed =>
        \A name \in SettingNames :
            /\ Passed(CtorArg(name)) => ClientValue(name) = CtorArg(name)
            /\ ~Passed(CtorArg(name)) /\ Configured(name).typ \notin {"absent", "none"} =>
                   ClientValue(name) = Configured(name)

\* C24: get_balance issues one request, a GET to {base}/getBalanceApi with
\* api_key as its only query parameter and without a body; a reply with
\* status < 400 whose body is a dict without a code is returned as it is,
\* every field of it included.
C24_GetBalanceRequest ==
    call.op = "get_balance" =>
        /\ Len(requests) = 1
        /\ requests[1].method = "GET"
        /\ requests[1].url = <<client.base_url, "/getBalanceApi">>
        /\ requests[1].params = [kind |-> "params", api_key |-> client.api_key]
        /\ requests[1].data = NoData
        /\ DictReplied /\ ~ReplyData.hascode =>
               /\ outcome = Return(ReplyData)
               /\ outcome.value.extra = LastAttempt.data.extra

\* get_balance, answered with a balance payload that has no code, has
\* returned that payload.
C24_Witness ==
    /\ call.op = "get_balance"
    /\ DictReplied
    /\ outcome = Return(Dict(FALSE, NullCode, FALSE, "", "balance"))
    /\ requests[1].method = "GET"

\* "Your {brand_name} OTP is {otp_code}", written out
OtpText ==
    <<"Y", "o", "u", "r", " ">> \o call.brand_name
        \o <<" ", "O", "T", "P", " ", "i", "s", " ">> \o call.otp_code

\* C25: send_otp ends as send_sms with the message "Your {brand_name} OTP is
\* {otp_code}" does: the same Validation failure, or the same one POST
\* carrying that text and the same result or failure; the OTP code and the
\* brand name are not checked on their own.
C25_SendOtpIsSendSms ==
    call.op = "send_otp" =>
        /\ Ended(requests, outcome) =
               send_sms(client, call.phone_numbers, OtpText, call.sender_id,
                        IF requests = <<>> THEN NoScript ELSE call.script)
        /\ requests # <<>> =>
               /\ Len(requests) = 1
               /\ requests[1].method = "POST"
               /\ requests[1].url = <<client.base_url, "/smsapi">>
               /\ requests[1].data.message = OtpText
        /\ requests = <<>> <=>
               \/ Len(OtpText) > 1530
               \/ validate_sender_id(EffectiveSender) # "ok"
               \/ validate_phone_number(call.phone_numbers[1]) # "ok"
        /\ requests = <<>> => outcome.kind = "raise" /\ outcome.cls = ValidationError

\* send_otp with a code that is not a number and an empty brand name has
\* sent "Your  OTP is x" and returned the reply.
C25_Witness ==
    /\ call.op = "send_otp"
    /\ call.otp_code = <<"x">>
    /\ call.brand_name = <<>>
    /\ Len(requests) = 1
    /\ requests[1].data.message =
           <<"Y", "o", "u", "r", " ", " ", "O", "T", "P", " ", "i", "s", " ", "x">>
    /\ outcome.kind = "return"

ConstructedSender ==
    IF PyTruthy(ctor.args.sender_id)
    THEN ctor.args.sender_id.chars
    ELSE Configured("SENDER_ID").chars

\* C27: whatever calls have been made on a client and however they ended,
\* its session, API key, default sender ID, timeout and endpoints are those
\* the constructor gave it; a request carries the sender_id passed to its
\* call, and the constructed default when none is passed, also after
\* earlier calls that passed one.
C27_ClientUnchangedByCalls ==
    client.constructed =>
        /\ client = init(settings, ctor.args).self
        /\ client.sender_id = ConstructedSender
        /\ call.op \in {"send_sms", "send_bulk_sms", "send_otp"} /\ requests # <<>> =>
               requests[1].data.senderid =
                   IF call.sender_id # <<>> THEN call.sender_id ELSE ConstructedSender

\* After a call that passed a sender_id, send_sms without one has sent the
\* constructed default.
C27_Witness ==
    /\ overridden
    /\ call.op = "send_sms"
    /\ call.sender_id = <<>>
    /\ Len(requests) = 1
    /\ requests[1].data.senderid = TestSender
    /\ client.sender_id = TestSender

\* settings has the attribute BULKSMS_<name>.
HasAttribute(name) == settings.attrs[name] # Absent

\* settings.BULKSMS is a dict with the key name.
InDict(name) == settings.BULKSMS.typ = "dict" /\ settings.BULKSMS.entries[name] # Absent

\* C28: get_bulksms_setting(name, default) returns the value of the
\* attribute BULKSMS_<name> when there is one, also when it is None or empty
\* and when the BULKSMS dict defines the name too; otherwise the entry of the
\* BULKSMS dict when BULKSMS is a dict with that key; otherwise the default.
C28_SettingLookupOrder ==
    lookup # NoLookup =>
        /\ HasAttribute(lookup.name) => lookup.result = settings.attrs[lookup.name]
        /\ ~HasAttribute(lookup.name) /\ InDict(lookup.name) =>
               lookup.result = settings.BULKSMS.entries[lookup.name]
        /\ ~HasAttribute(lookup.name) /\ ~InDict(lookup.name) => lookup.result = lookup.default

\* With BULKSMS_API_KEY = None and an API_KEY in the BULKSMS dict, the lookup
\* of API_KEY with a default has returned None.
C28_Witness ==
    /\ lookup.name = "API_KEY"
    /\ lookup.default = PyStr("fallback")
    /\ settings.attrs["API_KEY"] = PyNone
    /\ InDict("API_KEY")
    /\ PyTruthy(settings.BULKSMS.entries["API_KEY"])
    /\ lookup.result = PyNone

\* The last operation ended with a BulkSMSAPIError or one of its subclasses.
ApiFailure == outcome.kind = "raise" /\ IsSubclass(outcome.cls, "BulkSMSAPIError")

\* The code of the reply is a key of ERROR_CODES.
CodeInTable == ReplyCode.typ = "int" /\ ReplyCode.num \in DOMAIN ERROR_CODES

\* C29: every API failure is built from a provider reply; its message is the
\* description of the table followed by " (Code: <code>)" when the reply's
\* code is a key of ERROR_CODES, whatever message the provider sent; for any
\* other code it is the provider's message, or "Unknown API error" when the
\* reply has none; error_code and response are the reply's code and the reply.
C29_ApiFailureMessage ==
    ApiFailure =>
        /\ MapperInvoked
        /\ CodeInTable =>
               outcome.message = <<ERROR_CODES[ReplyCode.num], " (Code: ",
                                   ToString(ReplyCode.num), ")">>
        /\ ~CodeInTable /\ ReplyData.hasmsg => outcome.message = <<ReplyData.msg>>
        /\ ~CodeInTable /\ ~ReplyData.hasmsg => outcome.message = <<"Unknown API error">>
        /\ CarriesReply

\* send_sms answered {code: 1007, message: "provider message"} has raised a
\* Balance failure whose message is the description of 1007 in the table.
C29_Witness ==
    /\ call.op = "send_sms"
    /\ DictReplied
    /\ ReplyCode = IntCode(1007)
    /\ ReplyData.hasmsg
    /\ ApiFailure
    /\ outcome.message = <<"Balance Insufficient", " (Code: ", "1007", ")">>

\* The operations that send messages.
Sending == {"send_sms", "send_bulk_sms", "send_otp"}

\* The constructor was called with an API key and a default sender ID that
\* the sender-ID rules reject.
BadDefaultGiven ==
    /\ ctor.called
    /\ Available(ctor.args.api_key, "API_KEY")
    /\ Available(ctor.args.sender_id, "SENDER_ID")
    /\ validate_sender_id(ConstructedSender) # "ok"

\* C30: the constructor accepts a default sender ID that the sender-ID
\* rules reject; on that client get_balance and test_connection issue their
\* request; send_sms, send_bulk_sms and send_otp fail with
\* BulkSMSValidationError and issue no request unless a valid sender_id is
\* passed to the call; an empty sender_id passed to a call is replaced by
\* the default.
C30_DefaultSenderNotValidated ==
    /\ BadDefaultGiven =>
           /\ client.constructed
           /\ client.sender_id = ConstructedSender
           /\ call.op \in {"get_balance", "test_connection"} =>
                  Len(requests) = 1 /\ requests[1].method = "GET"
           /\ call.op \in Sending /\ validate_sender_id(call.sender_id) # "ok" =>
                  /\ outcome.kind = "raise"
                  /\ outcome.cls = ValidationError
                  /\ requests = <<>>
    /\ client.constructed /\ call.op \in Sending /\ call.sender_id = <<>> /\ requests # <<>> =>
           requests[1].data.senderid = client.sender_id

\* On a client built with the default sender ID "no#", send_sms of a valid
\* message to a valid number without a sender_id has failed with a
\* Validation failure and no request.
C30_Witness ==
    /\ BadDefaultGiven
    /\ client.constructed
    /\ client.sender_id = <<"n", "o", "#">>
    /\ call.op = "send_sms"
    /\ call.sender_id = <<>>
    /\ call.message = Hello
    /\ call.phone_numbers = <<LocalNumber>>
    /\ outcome.cls = ValidationError
    /\ requests = <<>>

=============================================================================
